---- MODULE Spec2Model ----
(***************************************************************************)
(* Model of the openredact-app backend: the JSON file store of             *)
(* backend/app/storage.py (whitelist and templates) and the handlers of    *)
(* backend/app/endpoints.py that use it or that post-process the external  *)
(* anonymizer.                                                             *)
(*                                                                         *)
(* Python strings are sequences of one-character strings, so that          *)
(* str.lower() and str.strip() are computed and not assumed.  A file is a  *)
(* record [kind, shape, data, size]: kind is "absent", "invalid" (exists   *)
(* but json.load raises) or "json"; shape is the top-level JSON type of a  *)
(* "json" file; size is st_size.  last is the call just handled, now the   *)
(* clock read by datetime.utcnow(), procs the requests in flight when      *)
(* requests overlap.                                                       *)
(*                                                                         *)
(* The three limits of storage.py are scaled down so that the states on    *)
(* both sides of every limit are enumerable; the code only compares        *)
(* lengths and sizes with them.                                            *)
(***************************************************************************)
EXTENDS Integers, Sequences, FiniteSets, TLC

VARIABLES wlFile, tplFile, last, now, procs

vars == <<wlFile, tplFile, last, now, procs>>

(* storage.py:19-21, scaled: 10 MB, 10000 and 1000 in the source. *)
MAX_FILE_SIZE == 17
MAX_WHITELIST_ENTRIES == 2
MAX_TEMPLATES == 2

---------------------------------------------------------------------------
(* Strings *)

sEmpty == <<>>
sBlank == <<" ">>
sa == <<"a">>
sA == <<"A">>
sb == <<"b">>
s_a == <<" ", "a">>
sa_ == <<"a", " ">>

(* Entries handed to the storage layer and texts of recognized spans. *)
EntryInputs == {sa, sA, sb, s_a, sa_}
PiiTexts == {sa, sA, sb, s_a}

LowerChar(c) == IF c = "A" THEN "a" ELSE IF c = "B" THEN "b" ELSE c

RECURSIVE Lower(_)
Lower(s) == IF s = <<>> THEN <<>> ELSE <<LowerChar(Head(s))>> \o Lower(Tail(s))

RECURSIVE LStrip(_)
LStrip(s) == IF s # <<>> /\ Head(s) = " " THEN LStrip(Tail(s)) ELSE s

RECURSIVE RStrip(_)
RStrip(s) ==
    IF s # <<>> /\ s[Len(s)] = " " THEN RStrip(SubSeq(s, 1, Len(s) - 1)) ELSE s

Strip(s) == RStrip(LStrip(s))

Take(s, n) == SubSeq(s, 1, IF Len(s) < n THEN Len(s) ELSE n)

Contains(s, x) == \E i \in 1..Len(s) : s[i] = x

(* list.remove(x): drops the first occurrence only. *)
RECURSIVE RemoveFirst(_, _)
RemoveFirst(s, x) ==
    IF s = <<>> THEN <<>>
    ELSE IF Head(s) = x THEN Tail(s)
    ELSE <<Head(s)>> \o RemoveFirst(Tail(s), x)

---------------------------------------------------------------------------
(* JSON files *)

AbsentFile == [kind |-> "absent", shape |-> "none", data |-> <<>>, size |-> 0]

(* A file cut short by a failed json.dump: open(.., "w") has truncated it. *)
PartialFile == [kind |-> "invalid", shape |-> "none", data |-> <<>>, size |-> 1]

(* json.dump(list of str, indent=2) of ASCII strings: "[]" for the empty
   list, else "[\n" + items '  "..."' joined by ",\n" + "\n]". *)
RECURSIVE ListItemBytes(_)
ListItemBytes(l) ==
    IF l = <<>> THEN 0 ELSE Len(Head(l)) + 6 + ListItemBytes(Tail(l))

JsonListSize(l) == 2 + ListItemBytes(l)

ListValue(l) == [shape |-> "list", data |-> l]
DictValue(d) == [shape |-> "dict", data |-> d]

(* Mutation: no test of st_size against MAX_FILE_SIZE. *)
load_json_file_NoSizeCheck(file, default) ==
    IF file.kind = "absent" THEN default
    ELSE IF file.kind = "invalid" THEN default
    ELSE [shape |-> file.shape, data |-> file.data]

(* Result of load_json_file: the default, or the parsed top-level value. *)
load_json_file(file, default) ==
    IF file.kind = "absent" THEN default
    ELSE IF file.size > MAX_FILE_SIZE THEN default
    ELSE IF file.kind = "invalid" THEN default
    ELSE [shape |-> file.shape, data |-> file.data]

(* Outcomes of one save_json_file call: "ok"; "nowrite" when mkdir or open
   raises before the file is touched; "partial" when json.dump raises after
   open(.., "w") truncated the file. *)
IoOutcomes == {"ok", "nowrite", "partial"}

save_json_file(file, value, size, io) ==
    IF io = "ok"
    THEN [file |-> [kind |-> "json", shape |-> value.shape,
                    data |-> value.data, size |-> size],
          ret |-> TRUE]
    ELSE IF io = "partial" THEN [file |-> PartialFile, ret |-> FALSE]
    ELSE [file |-> file, ret |-> FALSE]

---------------------------------------------------------------------------
(* WhitelistStorage *)

WlGetAll(file) ==
    LET entries == load_json_file(file, ListValue(<<>>))
    IN IF entries.shape # "list" THEN <<>>
       ELSE Take(entries.data, MAX_WHITELIST_ENTRIES)

SaveWhitelist(file, l, io) ==
    save_json_file(file, ListValue(l), JsonListSize(l), io)

(* Each operation yields [file, ret, wrote]: the file after the call, the
   returned bool and whether save_json_file was called. *)
NoSave(file, ret) == [file |-> file, ret |-> ret, saveCalled |-> FALSE]
Saved(r) == [file |-> r.file, ret |-> r.ret, saveCalled |-> TRUE]

(* Mutation: the size test lets a full whitelist through. *)
WlAddResult_OffByOne(file, entry, io) ==
    LET whitelist == WlGetAll(file)
    IN IF Len(whitelist) > MAX_WHITELIST_ENTRIES THEN NoSave(file, FALSE)
       ELSE IF ~Contains(whitelist, entry)
            THEN Saved(SaveWhitelist(file, Append(whitelist, entry), io))
       ELSE NoSave(file, TRUE)

(* Mutation: no membership test before the append. *)
WlAddResult_NoMembership(file, entry, io) ==
    LET whitelist == WlGetAll(file)
    IN IF Len(whitelist) >= MAX_WHITELIST_ENTRIES THEN NoSave(file, FALSE)
       ELSE Saved(SaveWhitelist(file, Append(whitelist, entry), io))

WlAddResult(file, entry, io) ==
    LET whitelist == WlGetAll(file)
    IN IF Len(whitelist) >= MAX_WHITELIST_ENTRIES THEN NoSave(file, FALSE)
       ELSE IF ~Contains(whitelist, entry)
            THEN Saved(SaveWhitelist(file, Append(whitelist, entry), io))
       ELSE NoSave(file, TRUE)

(* Mutation: an entry that is not stored is reported as a failure. *)
WlRemoveResult_MissingFails(file, entry, io) ==
    LET whitelist == WlGetAll(file)
    IN IF Contains(whitelist, entry)
       THEN Saved(SaveWhitelist(file, RemoveFirst(whitelist, entry), io))
       ELSE NoSave(file, FALSE)

WlRemoveResult(file, entry, io) ==
    LET whitelist == WlGetAll(file)
    IN IF Contains(whitelist, entry)
       THEN Saved(SaveWhitelist(file, RemoveFirst(whitelist, entry), io))
       ELSE NoSave(file, TRUE)

(* Mutation: a list above the cap is cut to the cap and stored, and the call
   returns False. *)
WlSetAllResult_Truncates(file, entries, io) ==
    IF Len(entries) > MAX_WHITELIST_ENTRIES
    THEN [file |-> SaveWhitelist(file, Take(entries, MAX_WHITELIST_ENTRIES), io).file,
          ret |-> FALSE, saveCalled |-> TRUE]
    ELSE Saved(SaveWhitelist(file, entries, io))

(* Mutation: the entries are put after the stored ones when that fits. *)
WlSetAllResult_Extends(file, entries, io) ==
    IF Len(entries) > MAX_WHITELIST_ENTRIES THEN NoSave(file, FALSE)
    ELSE IF Len(WlGetAll(file) \o entries) <= MAX_WHITELIST_ENTRIES
    THEN Saved(SaveWhitelist(file, WlGetAll(file) \o entries, io))
    ELSE Saved(SaveWhitelist(file, entries, io))

(* Mutation: no size test. *)
WlSetAllResult_NoCap(file, entries, io) ==
    Saved(SaveWhitelist(file, entries, io))

WlSetAllResult(file, entries, io) ==
    IF Len(entries) > MAX_WHITELIST_ENTRIES THEN NoSave(file, FALSE)
    ELSE Saved(SaveWhitelist(file, entries, io))

---------------------------------------------------------------------------
(* TemplateStorage.  A dict is a sequence of [id, body] in insertion order,
   one item per id; a body is [name, created_at, updated_at], 0 for None. *)

RECURSIVE DictItemBytes(_)
DictItemBytes(d) ==
    IF d = <<>> THEN 0 ELSE Len(Head(d).body.name) + 6 + DictItemBytes(Tail(d))

(* Bytes of json.dump of the templates dict, in the scale of MAX_FILE_SIZE:
   the text of a template beyond its name counts 6. *)
JsonDictSize(d) == 2 + DictItemBytes(d)

DictHas(d, id) == \E i \in 1..Len(d) : d[i].id = id

DictGet(d, id) == d[CHOOSE i \in 1..Len(d) : d[i].id = id].body

(* d[id] = body: an existing key keeps its place, a new one goes last. *)
DictSet(d, id, body) ==
    IF DictHas(d, id)
    THEN [i \in 1..Len(d) |-> IF d[i].id = id THEN [id |-> id, body |-> body] ELSE d[i]]
    ELSE Append(d, [id |-> id, body |-> body])

DictDel(d, id) == SelectSeq(d, LAMBDA item : item.id # id)

RECURSIVE DictUpdate(_, _)
DictUpdate(d, other) ==
    IF other = <<>> THEN d
    ELSE DictUpdate(DictSet(d, Head(other).id, Head(other).body), Tail(other))

DictKeys(d) == {d[i].id : i \in 1..Len(d)}

TplGetAll(file) ==
    LET templates == load_json_file(file, DictValue(<<>>))
    IN IF templates.shape # "dict" THEN <<>>
       ELSE IF Len(templates.data) > MAX_TEMPLATES
            THEN Take(templates.data, MAX_TEMPLATES)
       ELSE templates.data

TplGet(file, template_id) ==
    LET templates == TplGetAll(file)
    IN IF DictHas(templates, template_id)
       THEN [found |-> TRUE, body |-> DictGet(templates, template_id)]
       ELSE [found |-> FALSE]

(* get_template: 404 when TemplateStorage.get returns None. *)
GetTemplateResponse(file, template_id) ==
    IF TplGet(file, template_id).found
    THEN [status |-> 200, template_id |-> template_id,
          template |-> TplGet(file, template_id).body]
    ELSE [status |-> 404, template_id |-> template_id,
          template |-> [name |-> sEmpty, created_at |-> 0, updated_at |-> 0]]

SaveTemplates(file, d, io) ==
    save_json_file(file, DictValue(d), JsonDictSize(d), io)

(* Mutation: a stored id keeps its stored value. *)
TplSaveResult_KeepsStored(file, template_id, template_data, io) ==
    LET templates == TplGetAll(file)
    IN IF ~DictHas(templates, template_id) /\ Len(templates) >= MAX_TEMPLATES
       THEN NoSave(file, FALSE)
       ELSE IF DictHas(templates, template_id)
       THEN Saved(SaveTemplates(file, templates, io))
       ELSE Saved(SaveTemplates(file, DictSet(templates, template_id, template_data), io))

(* Mutation: an update of an existing id counts against the cap. *)
TplSaveResult_CountsUpdates(file, template_id, template_data, io) ==
    LET templates == TplGetAll(file)
    IN IF Len(templates) >= MAX_TEMPLATES
       THEN NoSave(file, FALSE)
       ELSE Saved(SaveTemplates(file, DictSet(templates, template_id, template_data), io))

TplSaveResult(file, template_id, template_data, io) ==
    LET templates == TplGetAll(file)
    IN IF ~DictHas(templates, template_id) /\ Len(templates) >= MAX_TEMPLATES
       THEN NoSave(file, FALSE)
       ELSE Saved(SaveTemplates(file, DictSet(templates, template_id, template_data), io))

TplDeleteResult(file, template_id, io) ==
    LET templates == TplGetAll(file)
    IN IF DictHas(templates, template_id)
       THEN Saved(SaveTemplates(file, DictDel(templates, template_id), io))
       ELSE NoSave(file, TRUE)

(* Mutation: no limit test. *)
TplImportResult_NoLimit(file, imported, io) ==
    IF ~imported.isDict THEN NoSave(file, FALSE)
    ELSE Saved(SaveTemplates(file, DictUpdate(TplGetAll(file), imported.data), io))

(* Mutation: above the limit, the templates that fit are stored and the call
   still returns False. *)
TplImportResult_Partial(file, imported, io) ==
    IF ~imported.isDict THEN NoSave(file, FALSE)
    ELSE LET templates == TplGetAll(file)
             merged == DictUpdate(templates, imported.data)
         IN IF Len(templates) + Len(imported.data) > MAX_TEMPLATES
            THEN [file |-> SaveTemplates(file, Take(merged, MAX_TEMPLATES), io).file,
                  ret |-> FALSE, saveCalled |-> TRUE]
            ELSE Saved(SaveTemplates(file, merged, io))

(* imported is [isDict, data]: isDict is isinstance(imported_templates, dict). *)
TplImportResult(file, imported, io) ==
    IF ~imported.isDict THEN NoSave(file, FALSE)
    ELSE LET templates == TplGetAll(file)
             total_count == Len(templates) + Len(imported.data)
         IN IF total_count > MAX_TEMPLATES THEN NoSave(file, FALSE)
            ELSE Saved(SaveTemplates(file, DictUpdate(templates, imported.data), io))

---------------------------------------------------------------------------
(* find_piis: the whitelist filter applied to the recognizer's spans *)

RECURSIVE LowerAll(_)
LowerAll(l) == IF l = <<>> THEN <<>> ELSE <<Lower(Head(l))>> \o LowerAll(Tail(l))

FilterPiis(ents, whitelist) ==
    LET whitelist_lower == LowerAll(whitelist)
    IN SelectSeq(ents,
                 LAMBDA pii : ~Contains(whitelist_lower, Strip(Lower(pii.text))))

---------------------------------------------------------------------------
(* Inputs *)

MaxEnts == 2

SeqsUpTo(S, n) == UNION {[1..k -> S] : k \in 0..n}

(* Spans as the recognizer returns them: in document order. *)
SpanSeqs ==
    {[i \in 1..Len(ts) |-> [text |-> ts[i], start_char |-> i]] :
        ts \in SeqsUpTo(PiiTexts, MaxEnts)}

(* Lists handed to set_all: every list within the cap, and lists one entry
   above it. *)
EntryLists ==
    SeqsUpTo(EntryInputs, MAX_WHITELIST_ENTRIES)
        \cup [1..(MAX_WHITELIST_ENTRIES + 1) -> {sa, sb}]

(* Whitelist files found at start-up: none, an unparsable one, one of the
   wrong top-level type, one above the byte ceiling, and a hand-written
   compact list with more entries than the cap. *)
InitWhitelistFiles ==
    { AbsentFile,
      PartialFile,
      [kind |-> "json", shape |-> "dict", data |-> <<>>, size |-> 2],
      [kind |-> "json", shape |-> "list", data |-> <<sa>>,
       size |-> MAX_FILE_SIZE + 1],
      [kind |-> "json", shape |-> "list", data |-> <<sa, sb, sBlank>>, size |-> 13] }

NoOp == [op |-> "none"]

(* No request in flight. *)
Idle == [pc |-> "idle"]
Writers == {1, 2}
NoProcs == [w \in Writers |-> Idle]

---------------------------------------------------------------------------
(* Whitelist operations as steps; last records the call just made *)

(* follows: when this add or remove comes right after an add of the same
   entry, the file before that add and what it returned. *)
NoFollow == [is |-> FALSE, before |-> AbsentFile, ret |-> FALSE, io |-> "none"]

Follows(op, entry) ==
    IF op \in {"add", "remove"} /\ last.op = "add" /\ last.entry = entry
    THEN [is |-> TRUE, before |-> last.before, ret |-> last.ret, io |-> last.io]
    ELSE NoFollow

WlCall(op, entry, entries, io, r) ==
    /\ wlFile' = r.file
    /\ last' = [op |-> op, entry |-> entry, entries |-> entries,
                io |-> IF r.saveCalled THEN io ELSE "none",
                before |-> wlFile, ret |-> r.ret, saveCalled |-> r.saveCalled,
                follows |-> Follows(op, entry)]
    /\ UNCHANGED <<tplFile, now, procs>>

WlAdd ==
    \E entry \in EntryInputs, io \in IoOutcomes :
        WlCall("add", entry, <<>>, io, WlAddResult(wlFile, entry, io))

WlRemove ==
    \E entry \in EntryInputs, io \in IoOutcomes :
        WlCall("remove", entry, <<>>, io, WlRemoveResult(wlFile, entry, io))

WlSetAll ==
    \E entries \in EntryLists, io \in IoOutcomes :
        WlCall("set_all", sEmpty, entries, io, WlSetAllResult(wlFile, entries, io))

FindPiis ==
    \E ents \in SpanSeqs :
        /\ last' = [op |-> "find_piis", ents |-> ents,
                    whitelist |-> WlGetAll(wlFile),
                    out |-> FilterPiis(ents, WlGetAll(wlFile)),
                    before |-> wlFile]
        /\ UNCHANGED <<wlFile, tplFile, now, procs>>

InitWl ==
    /\ wlFile \in InitWhitelistFiles
    /\ tplFile = AbsentFile
    /\ last = NoOp
    /\ now = 0
    /\ procs = NoProcs

NextWl == WlAdd \/ WlRemove \/ WlSetAll \/ FindPiis

SpecWl == InitWl /\ [][NextWl]_vars

---------------------------------------------------------------------------
(* Template operations as steps *)

t1 == <<"t", "1">>
t2 == <<"t", "2">>
t3 == <<"t", "3">>

TemplateIds == {t1, t2, t3}

nameShort == <<"n">>
nameLong == <<"m", "m">>

Body(name) == [name |-> name, created_at |-> 0, updated_at |-> 0]
TplBodies == {Body(nameShort), Body(nameLong)}

(* Dicts with the given keys in the given order. *)
DictsOver(ids, bodies) ==
    {[i \in 1..Len(ids) |-> [id |-> ids[i], body |-> bs[i]]] :
        bs \in [1..Len(ids) -> bodies]}

DistinctIdSeqs(n) ==
    {ids \in SeqsUpTo(TemplateIds, n) :
        \A i, j \in 1..Len(ids) : i # j => ids[i] # ids[j]}

(* Payloads of import_templates: every dict of at most MAX_TEMPLATES
   templates, dicts of one more, and a payload that is not a dict. *)
ImportPayloads ==
    {[isDict |-> TRUE, data |-> d] :
        d \in UNION {DictsOver(ids, TplBodies) : ids \in DistinctIdSeqs(MAX_TEMPLATES)}}
    \cup {[isDict |-> TRUE, data |-> d] :
        d \in UNION {DictsOver(ids, {Body(nameShort)}) :
                        ids \in DistinctIdSeqs(MAX_TEMPLATES + 1)}}
    \cup {[isDict |-> FALSE, data |-> <<>>]}

(* Template files found at start-up: none, an unparsable one, one of the
   wrong top-level type, and a hand-written compact dict with more
   templates than the cap. *)
InitTemplateFiles ==
    { AbsentFile,
      PartialFile,
      [kind |-> "json", shape |-> "list", data |-> <<>>, size |-> 2],
      [kind |-> "json", shape |-> "dict",
       data |-> <<[id |-> t1, body |-> Body(nameShort)],
                  [id |-> t2, body |-> Body(nameShort)],
                  [id |-> t3, body |-> Body(nameShort)]>>,
       size |-> MAX_FILE_SIZE] }

TplCall(op, id, body, imported, io, r) ==
    /\ tplFile' = r.file
    /\ last' = [op |-> op, id |-> id, body |-> body, imported |-> imported,
                io |-> IF r.saveCalled THEN io ELSE "none",
                before |-> tplFile, ret |-> r.ret, saveCalled |-> r.saveCalled]
    /\ UNCHANGED <<wlFile, now, procs>>

NoPayload == [isDict |-> FALSE, data |-> <<>>]

TplSave ==
    \E id \in TemplateIds, body \in TplBodies, io \in IoOutcomes :
        TplCall("save", id, body, NoPayload, io, TplSaveResult(tplFile, id, body, io))

TplDelete ==
    \E id \in TemplateIds, io \in IoOutcomes :
        TplCall("delete", id, Body(nameShort), NoPayload, io,
                TplDeleteResult(tplFile, id, io))

TplImport ==
    \E imported \in ImportPayloads, io \in IoOutcomes :
        TplCall("import", sEmpty, Body(nameShort), imported, io,
                TplImportResult(tplFile, imported, io))

InitTpl ==
    /\ wlFile = AbsentFile
    /\ tplFile \in InitTemplateFiles
    /\ last = NoOp
    /\ now = 0
    /\ procs = NoProcs

NextTpl == TplSave \/ TplDelete \/ TplImport

SpecTpl == InitTpl /\ [][NextTpl]_vars

---------------------------------------------------------------------------
(* anonymize: the handler around the external Anonymizer *)

MaxPiis == 3

PiiIds == <<"p1", "p2", "p3", "p4">>

(* The text a mechanism puts in place of a span's text. *)
sRedacted == <<"X">>

(* Request bodies: piis with ids in request order. *)
PiiSeqs ==
    {[i \in 1..Len(ps) |-> [id |-> PiiIds[i], text |-> ps[i].text, tag |-> ps[i].tag]] :
        ps \in SeqsUpTo({[text |-> sa, tag |-> "PER"], [text |-> sb, tag |-> "PER"],
                         [text |-> sa, tag |-> "LOC"]}, MaxPiis)}

(* What Anonymizer(config).anonymize(piis) can do, for any config: raise
   ParserError on one of the spans, or yield every pii in order, each either
   rewritten and flagged modified or left as it was. *)
AnonymizerResults(piis) ==
    {[raised |-> TRUE, piis |-> <<>>]}
    \cup {[raised |-> FALSE,
           piis |-> [i \in 1..Len(piis) |->
                        [id |-> piis[i].id,
                         text |-> IF m[i] THEN sRedacted ELSE piis[i].text,
                         modified |-> m[i]]]] :
            m \in [1..Len(piis) -> BOOLEAN]}

ToAnonymizedPii(pii) == [text |-> pii.text, id |-> pii.id]

RECURSIVE ModifiedOnly(_)
ModifiedOnly(ps) ==
    IF ps = <<>> THEN <<>>
    ELSE IF Head(ps).modified
         THEN <<ToAnonymizedPii(Head(ps))>> \o ModifiedOnly(Tail(ps))
    ELSE ModifiedOnly(Tail(ps))

(* Mutation: no comparison of the output count with the input count. *)
AnonymizeResponse_NoCountCheck(piis, result) ==
    IF result.raised
    THEN [status |-> 400, detail |-> "Error parsing a pii", anonymized_piis |-> <<>>]
    ELSE [status |-> 200, detail |-> "", anonymized_piis |-> ModifiedOnly(result.piis)]

AnonymizeResponse(piis, result) ==
    IF result.raised
    THEN [status |-> 400, detail |-> "Error parsing a pii", anonymized_piis |-> <<>>]
    ELSE LET anonymized_piis == ModifiedOnly(result.piis)
         IN IF Len(anonymized_piis) # Len(piis)
            THEN [status |-> 400, detail |-> "Invalid Config", anonymized_piis |-> <<>>]
            ELSE [status |-> 200, detail |-> "", anonymized_piis |-> anonymized_piis]

Anonymize ==
    \E piis \in PiiSeqs :
        \E result \in AnonymizerResults(piis) :
            /\ last' = [op |-> "anonymize", piis |-> piis, result |-> result,
                        response |-> AnonymizeResponse(piis, result)]
            /\ UNCHANGED <<wlFile, tplFile, now, procs>>

InitAnon ==
    /\ wlFile = AbsentFile
    /\ tplFile = AbsentFile
    /\ last = NoOp
    /\ now = 0
    /\ procs = NoProcs

NextAnon == Anonymize

SpecAnon == InitAnon /\ [][NextAnon]_vars

---------------------------------------------------------------------------
(* anonymize_file.  BinaryWrapper, add_alter, apply_alters and b64encode are
   library calls: each either returns or raises.  An exception that
   anonymize_file does not catch leaves the handler and the server answers
   500. *)

MaxAlterations == 2

(* One element of the parsed anonymizations: an object with startChar,
   endChar and text, an object without one of them, or not an object. *)
AlterationKinds == {"complete", "noStartChar", "noEndChar", "noText", "notObject"}

(* The anonymizations form field: text that is not JSON, a JSON number, a
   JSON object (iterated by its keys, which are strings), or a JSON array. *)
AnonymizationsInputs ==
    {[json |-> "invalid", items |-> <<>>], [json |-> "number", items |-> <<>>],
     [json |-> "object", items |-> <<>>], [json |-> "object", items |-> <<"notObject">>]}
    \cup {[json |-> "array", items |-> items] :
             items \in SeqsUpTo(AlterationKinds, MaxAlterations)}

(* alteration["startChar"], alteration["endChar"], alteration["text"]. *)
Subscripts(alteration) ==
    IF alteration = "complete" THEN "ok"
    ELSE IF alteration = "notObject" THEN "TypeError"
    ELSE "KeyError"

(* The for loop over json.loads(anonymizations): stops at the first
   exception. *)
RECURSIVE AddAlters(_)
AddAlters(items) ==
    IF items = <<>> THEN "ok"
    ELSE IF Subscripts(Head(items)) # "ok" THEN Subscripts(Head(items))
    ELSE AddAlters(Tail(items))

Unhandled(exception) ==
    [status |-> 500, detail |-> "Internal Server Error", raised |-> exception]

AnonymizeFileResponse(supported, anonymizations, alters, return_base64, b64) ==
    IF ~supported
    THEN [status |-> 400, detail |-> "Unsupported File Format", raised |-> "HTTPException"]
    ELSE IF anonymizations.json = "invalid" THEN Unhandled("JSONDecodeError")
    ELSE IF anonymizations.json = "number" THEN Unhandled("TypeError")
    ELSE IF AddAlters(anonymizations.items) # "ok"
    THEN Unhandled(AddAlters(anonymizations.items))
    ELSE IF alters = "raises" THEN Unhandled("Exception")
    ELSE IF return_base64
    THEN IF b64 = "raises"
         THEN [status |-> 400,
               detail |-> "File Handling Error (base64 encoding failed)",
               raised |-> "HTTPException"]
         ELSE [status |-> 200, detail |-> "base64", raised |-> "none"]
    ELSE [status |-> 200, detail |-> "attachment", raised |-> "none"]

AnonymizeFile ==
    \E supported \in BOOLEAN, anonymizations \in AnonymizationsInputs,
       alters \in {"ok", "raises"}, return_base64 \in BOOLEAN,
       b64 \in {"ok", "raises"} :
        /\ last' = [op |-> "anonymize_file", supported |-> supported,
                    anonymizations |-> anonymizations, alters |-> alters,
                    return_base64 |-> return_base64, b64 |-> b64,
                    response |-> AnonymizeFileResponse(supported, anonymizations,
                                     alters, return_base64, b64)]
        /\ UNCHANGED <<wlFile, tplFile, now, procs>>

NextFile == AnonymizeFile

SpecFile == InitAnon /\ [][NextFile]_vars

---------------------------------------------------------------------------
(* The whole backend *)

Init ==
    /\ wlFile \in InitWhitelistFiles
    /\ tplFile \in InitTemplateFiles
    /\ last = NoOp
    /\ now = 0
    /\ procs = NoProcs

Next == NextWl \/ NextTpl \/ NextAnon \/ NextFile

Spec == Init /\ [][Next]_vars

---------------------------------------------------------------------------
(* The template endpoints save_template and delete_template.  now is the
   last value read from the clock; 0 stands for None in created_at and
   updated_at. *)

MaxTime == 3

(* created_at in the request body: absent, or a value the client sends. *)
CreatedAtInputs == {0, 1}

TemplateRequests ==
    {[name |-> n, created_at |-> c, updated_at |-> 0] :
        n \in {nameShort, nameLong}, c \in CreatedAtInputs}

(* template.dict() with the timestamps of save_template. *)
TemplateDict(template, utcnow) ==
    [name |-> template.name,
     created_at |-> IF template.created_at = 0 THEN utcnow ELSE template.created_at,
     updated_at |-> utcnow]

SaveTemplateResponse(file, template_id, template, utcnow, io) ==
    IF Strip(template_id) = sEmpty
    THEN [file |-> file, status |-> 400, ret |-> FALSE, saveCalled |-> FALSE,
          body |-> template]
    ELSE LET r == TplSaveResult(file, template_id, TemplateDict(template, utcnow), io)
         IN [file |-> r.file, status |-> IF r.ret THEN 200 ELSE 500,
             ret |-> r.ret, saveCalled |-> r.saveCalled,
             body |-> TemplateDict(template, utcnow)]

SaveTemplate ==
    \E id \in TemplateIds \cup {sBlank}, template \in TemplateRequests,
       utcnow \in {now, now + 1}, io \in IoOutcomes :
        /\ utcnow >= 1
        /\ utcnow <= MaxTime
        /\ LET r == SaveTemplateResponse(tplFile, id, template, utcnow, io)
           IN /\ tplFile' = r.file
              /\ last' = [op |-> "save_template", id |-> id, template |-> template,
                          body |-> r.body, utcnow |-> utcnow, status |-> r.status,
                          io |-> IF r.saveCalled THEN io ELSE "none",
                          before |-> tplFile, ret |-> r.ret,
                          saveCalled |-> r.saveCalled]
        /\ now' = utcnow
        /\ UNCHANGED <<wlFile, procs>>

NextTplApi == SaveTemplate \/ TplDelete

SpecTplApi == InitTpl /\ [][NextTplApi]_vars

(* data.templates of import_templates: a dict of TemplateData objects. *)
ImportRequests == {p \in ImportPayloads : p.isDict}

(* What save_json_file meets when the value holds TemplateData objects:
   json.dump raises TypeError at the first of them, after open(.., "w")
   emptied the file. *)
DumpOutcome(holdsObjects, io) ==
    IF io = "nowrite" THEN "nowrite"
    ELSE IF holdsObjects THEN "partial"
    ELSE io

(* import_templates hands data.templates, whose values are TemplateData
   objects and not dicts, to TemplateStorage.import_templates. *)
ImportTemplatesResponse(file, templates, io) ==
    LET r == TplImportResult(file, templates,
                             DumpOutcome(templates.data # <<>>, io))
    IN [file |-> r.file, status |-> IF r.ret THEN 200 ELSE 500, ret |-> r.ret,
        saveCalled |-> r.saveCalled]

ImportTemplates ==
    \E templates \in ImportRequests, io \in IoOutcomes :
        /\ LET r == ImportTemplatesResponse(tplFile, templates, io)
           IN /\ tplFile' = r.file
              /\ last' = [op |-> "import_templates", imported |-> templates,
                          status |-> r.status, io |-> io, before |-> tplFile,
                          ret |-> r.ret, saveCalled |-> r.saveCalled]
        /\ UNCHANGED <<wlFile, now, procs>>

(* import_templates next to the storage calls of save_template and
   delete_template. *)
NextImportApi == ImportTemplates \/ TplSave \/ TplDelete

SpecImportApi == InitTpl /\ [][NextImportApi]_vars

---------------------------------------------------------------------------
(* The whitelist endpoints: add_whitelist_entry, remove_whitelist_entry,
   update_whitelist and get_whitelist. *)

(* data.entry of a request: empty, blank, plain, and with a leading or a
   trailing blank. *)
ApiEntries == {sEmpty, sBlank, sa, sb, s_a, sa_}

ApiResponse(r, storageCalled) ==
    [file |-> r.file, status |-> IF r.ret THEN 200 ELSE 500, ret |-> r.ret,
     saveCalled |-> r.saveCalled, storageCalled |-> storageCalled]

(* Mutation: no test for an empty entry. *)
AddWhitelistEntryResponse_NoBlankTest(file, entry, io) ==
    ApiResponse(WlAddResult(file, Strip(entry), io), TRUE)

AddWhitelistEntryResponse(file, entry, io) ==
    IF entry = sEmpty \/ Strip(entry) = sEmpty
    THEN [file |-> file, status |-> 400, ret |-> FALSE, saveCalled |-> FALSE,
          storageCalled |-> FALSE]
    ELSE ApiResponse(WlAddResult(file, Strip(entry), io), TRUE)

RemoveWhitelistEntryResponse(file, entry, io) ==
    ApiResponse(WlRemoveResult(file, entry, io), TRUE)

UpdateWhitelistResponse(file, entries, io) ==
    ApiResponse(WlSetAllResult(file, entries, io), TRUE)

(* after: when this request comes right after an add_whitelist_entry with
   the same data.entry, the file before that request and its status. *)
NotAfterAdd == [is |-> FALSE, before |-> AbsentFile, status |-> 0]

AfterAdd(entry) ==
    IF last.op = "add_whitelist_entry" /\ last.entry = entry
    THEN [is |-> TRUE, before |-> last.before, status |-> last.status]
    ELSE NotAfterAdd

WlApiCall(op, entry, entries, io, r, after) ==
    /\ wlFile' = r.file
    /\ last' = [op |-> op, entry |-> entry, entries |-> entries,
                io |-> IF r.saveCalled THEN io ELSE "none",
                before |-> wlFile, status |-> r.status, ret |-> r.ret,
                saveCalled |-> r.saveCalled, storageCalled |-> r.storageCalled,
                after |-> after]
    /\ UNCHANGED <<tplFile, now, procs>>

AddWhitelistEntry ==
    \E entry \in ApiEntries, io \in IoOutcomes :
        WlApiCall("add_whitelist_entry", entry, <<>>, io,
                  AddWhitelistEntryResponse(wlFile, entry, io), NotAfterAdd)

RemoveWhitelistEntry ==
    \E entry \in ApiEntries, io \in IoOutcomes :
        WlApiCall("remove_whitelist_entry", entry, <<>>, io,
                  RemoveWhitelistEntryResponse(wlFile, entry, io), AfterAdd(entry))

UpdateWhitelist ==
    \E entries \in EntryLists, io \in IoOutcomes :
        WlApiCall("update_whitelist", sEmpty, entries, io,
                  UpdateWhitelistResponse(wlFile, entries, io), NotAfterAdd)

GetWhitelist ==
    /\ last' = [op |-> "get_whitelist", entries |-> WlGetAll(wlFile),
                before |-> wlFile, status |-> 200]
    /\ UNCHANGED <<wlFile, tplFile, now, procs>>

NextWlApi ==
    AddWhitelistEntry \/ RemoveWhitelistEntry \/ UpdateWhitelist \/ GetWhitelist

SpecWlApi == InitWl /\ [][NextWlApi]_vars

---------------------------------------------------------------------------
(* Two server processes in WhitelistStorage.add at once.  The call is cut
   where it touches the file: get_all; open(path, "w"), which empties the
   file; json.dump and close, which write from offset 0.  There is no lock
   between these steps. *)

RaceEntries == {sa, sb, s_a}

(* The file right after open(path, "w"). *)
TruncatedFile == [kind |-> "invalid", shape |-> "none", data |-> <<>>, size |-> 0]

(* Mutation: the dump keeps the entries that are in the file and adds the
   missing ones of value. *)
DumpOver_Merge(file, value, size, io) ==
    IF io = "partial" THEN PartialFile
    ELSE IF file.kind = "json" /\ file.shape = "list"
    THEN LET missing == SelectSeq(value.data, LAMBDA e : ~Contains(file.data, e))
         IN [kind |-> "json", shape |-> "list", data |-> file.data \o missing,
             size |-> JsonListSize(file.data \o missing)]
    ELSE [kind |-> "json", shape |-> value.shape, data |-> value.data, size |-> size]

(* The file after json.dump(value) and close by a process that opened it
   earlier: its bytes replace the file from offset 0, and bytes that another
   process wrote beyond them since stay, which is not JSON. *)
DumpOver(file, value, size, io) ==
    IF io = "partial" THEN PartialFile
    ELSE IF file.size > size
    THEN [kind |-> "invalid", shape |-> "none", data |-> <<>>, size |-> file.size]
    ELSE [kind |-> "json", shape |-> value.shape, data |-> value.data, size |-> size]

Writer(pc, entry, seen, pending, ret, dumped) ==
    [pc |-> pc, entry |-> entry, seen |-> seen, pending |-> pending,
     ret |-> ret, dumped |-> dumped]

RaceStep(w, step, p) ==
    /\ procs' = [procs EXCEPT ![w] = p]
    /\ last' = [op |-> step, w |-> w]
    /\ UNCHANGED <<tplFile, now>>

(* get_all and the tests of add on what it returned. *)
RaceLoad(w) ==
    \E entry \in RaceEntries :
        /\ procs[w].pc = "idle"
        /\ LET r == WlAddResult(wlFile, entry, "ok")
           IN RaceStep(w, "load",
                  IF r.saveCalled
                  THEN Writer("loaded", entry, WlGetAll(wlFile), r.file.data,
                              FALSE, FALSE)
                  ELSE Writer("done", entry, WlGetAll(wlFile), <<>>, r.ret, FALSE))
        /\ UNCHANGED wlFile

(* mkdir and open(path, "w") of save_json_file. *)
RaceOpen(w) ==
    \E io \in {"ok", "nowrite"} :
        /\ procs[w].pc = "loaded"
        /\ IF io = "ok"
           THEN /\ wlFile' = TruncatedFile
                /\ RaceStep(w, "open", [procs[w] EXCEPT !.pc = "opened"])
           ELSE /\ UNCHANGED wlFile
                /\ RaceStep(w, "open", [procs[w] EXCEPT !.pc = "done"])

(* json.dump and close of save_json_file, and the return of add. *)
RaceDump(w) ==
    \E io \in {"ok", "partial"} :
        /\ procs[w].pc = "opened"
        /\ wlFile' = DumpOver(wlFile, ListValue(procs[w].pending),
                              JsonListSize(procs[w].pending), io)
        /\ RaceStep(w, "dump",
               [procs[w] EXCEPT !.pc = "done", !.ret = (io = "ok"),
                                !.dumped = (io = "ok")])

(* The response is sent; the process takes the next request. *)
RaceReturn(w) ==
    /\ procs[w].pc = "done"
    /\ RaceStep(w, "return", Idle)
    /\ UNCHANGED wlFile

InitRace ==
    /\ wlFile \in {AbsentFile,
                   [kind |-> "json", shape |-> "list", data |-> <<sa>>,
                    size |-> JsonListSize(<<sa>>)]}
    /\ tplFile = AbsentFile
    /\ last = NoOp
    /\ now = 0
    /\ procs = NoProcs

NextRace ==
    \E w \in Writers : RaceLoad(w) \/ RaceOpen(w) \/ RaceDump(w) \/ RaceReturn(w)

SpecRace == InitRace /\ [][NextRace]_vars

---------------------------------------------------------------------------
(* Every storage operation on both files, by two server processes.  A write
   operation is cut where it touches its file, as above: get_all and the
   tests on it; open(path, "w"); json.dump and close.  A read operation is
   one load. *)

Request(store, op, entry, entries, id, imported) ==
    [store |-> store, op |-> op, entry |-> entry, entries |-> entries,
     id |-> id, imported |-> imported]

StoreRequests ==
    {Request("wl", "add", e, <<>>, sEmpty, NoPayload) : e \in {sb, sA}}
    \cup {Request("wl", "remove", sa, <<>>, sEmpty, NoPayload)}
    \cup {Request("wl", "set_all", sEmpty, l, sEmpty, NoPayload) :
             l \in {<<sb, sa>>, <<sa, sb, sa>>}}
    \cup {Request("tpl", "save", sEmpty, <<>>, id, NoPayload) : id \in {t1, t2}}
    \cup {Request("tpl", "delete", sEmpty, <<>>, t1, NoPayload)}
    \cup {Request("tpl", "import", sEmpty, <<>>, sEmpty, [isDict |-> TRUE, data |-> d]) :
             d \in {<<[id |-> t2, body |-> Body(nameShort)],
                      [id |-> t3, body |-> Body(nameShort)]>>,
                    <<[id |-> t3, body |-> Body(nameShort)]>>}}

(* What the operation does on the files as they are. *)
RequestResult(req, io) ==
    IF req.op = "add" THEN WlAddResult(wlFile, req.entry, io)
    ELSE IF req.op = "remove" THEN WlRemoveResult(wlFile, req.entry, io)
    ELSE IF req.op = "set_all" THEN WlSetAllResult(wlFile, req.entries, io)
    ELSE IF req.op = "save"
         THEN TplSaveResult(tplFile, req.id, Body(nameShort), io)
    ELSE IF req.op = "delete" THEN TplDeleteResult(tplFile, req.id, io)
    ELSE TplImportResult(tplFile, req.imported, io)

(* Mutation: a write goes to both files. *)
StoreFiles_Both(store, file) == [wl |-> file, tpl |-> file]

(* The two files after an operation of the given store left file in its
   own: WHITELIST_FILE for WhitelistStorage, TEMPLATES_FILE for
   TemplateStorage. *)
StoreFiles(store, file) ==
    [wl |-> IF store = "wl" THEN file ELSE wlFile,
     tpl |-> IF store = "tpl" THEN file ELSE tplFile]

FileOf(store) == IF store = "wl" THEN wlFile ELSE tplFile

StoreStep(w, step, p, files) ==
    /\ procs' = [procs EXCEPT ![w] = p]
    /\ wlFile' = files.wl
    /\ tplFile' = files.tpl
    /\ last' = [op |-> p.req.op, store |-> p.req.store, step |-> step, w |-> w]
    /\ UNCHANGED now

StoreLoad(w) ==
    \E req \in StoreRequests :
        /\ procs[w].pc = "idle"
        /\ LET r == RequestResult(req, "ok")
           IN StoreStep(w, "load",
                  [pc |-> IF r.saveCalled THEN "loaded" ELSE "done", req |-> req,
                   pending |-> IF r.saveCalled THEN r.file ELSE AbsentFile,
                   ret |-> IF r.saveCalled THEN FALSE ELSE r.ret,
                   dumped |-> FALSE],
                  StoreFiles(req.store, FileOf(req.store)))

StoreOpen(w) ==
    \E io \in {"ok", "nowrite"} :
        /\ procs[w].pc = "loaded"
        /\ IF io = "ok"
           THEN StoreStep(w, "open", [procs[w] EXCEPT !.pc = "opened"],
                          StoreFiles(procs[w].req.store, TruncatedFile))
           ELSE StoreStep(w, "open", [procs[w] EXCEPT !.pc = "done"],
                          StoreFiles(procs[w].req.store, FileOf(procs[w].req.store)))

StoreDump(w) ==
    \E io \in {"ok", "partial"} :
        /\ procs[w].pc = "opened"
        /\ StoreStep(w, "dump",
               [procs[w] EXCEPT !.pc = "done", !.ret = (io = "ok"),
                                !.dumped = (io = "ok")],
               StoreFiles(procs[w].req.store,
                   DumpOver(FileOf(procs[w].req.store),
                            [shape |-> procs[w].pending.shape,
                             data |-> procs[w].pending.data],
                            procs[w].pending.size, io)))

StoreReturn(w) ==
    /\ procs[w].pc = "done"
    /\ procs' = [procs EXCEPT ![w] = Idle]
    /\ last' = [op |-> "return", store |-> procs[w].req.store, step |-> "return",
                w |-> w]
    /\ UNCHANGED <<wlFile, tplFile, now>>

GetTemplates ==
    /\ last' = [op |-> "get_templates", templates |-> TplGetAll(tplFile),
                before |-> tplFile, status |-> 200]
    /\ UNCHANGED <<wlFile, tplFile, now, procs>>

GetTemplate ==
    \E id \in TemplateIds :
        /\ last' = [op |-> "get_template", before |-> tplFile,
                    response |-> GetTemplateResponse(tplFile, id)]
        /\ UNCHANGED <<wlFile, tplFile, now, procs>>

InitStore ==
    /\ wlFile \in {AbsentFile,
                   [kind |-> "json", shape |-> "list", data |-> <<sa>>,
                    size |-> JsonListSize(<<sa>>)]}
    /\ tplFile \in {AbsentFile,
                    [kind |-> "json", shape |-> "dict",
                     data |-> <<[id |-> t1, body |-> Body(nameShort)]>>,
                     size |-> JsonDictSize(<<[id |-> t1, body |-> Body(nameShort)]>>)]}
    /\ last = NoOp
    /\ now = 0
    /\ procs = NoProcs

NextStore ==
    \E w \in Writers : StoreLoad(w) \/ StoreOpen(w) \/ StoreDump(w) \/ StoreReturn(w)

SpecStore == InitStore /\ [][NextStore]_vars

(* One server process: each write operation runs from its load to its
   return before the next request, and the read operations come between. *)
StoreCall ==
    \E req \in StoreRequests, io \in IoOutcomes :
        LET r == RequestResult(req, io)
            files == StoreFiles(req.store, r.file)
        IN /\ wlFile' = files.wl
           /\ tplFile' = files.tpl
           /\ last' = [op |-> req.op, store |-> req.store, step |-> "call",
                       req |-> req, io |-> IF r.saveCalled THEN io ELSE "none",
                       ret |-> r.ret, wlBefore |-> wlFile, tplBefore |-> tplFile]
           /\ UNCHANGED <<now, procs>>

NextFrame == StoreCall \/ GetWhitelist \/ GetTemplates \/ GetTemplate \/ FindPiis

SpecFrame == InitStore /\ [][NextFrame]_vars

---------------------------------------------------------------------------
(* Both stores, one item at a time: add and remove on the whitelist, save
   and delete on the templates *)

NextItems == WlAdd \/ WlRemove \/ TplSave \/ TplDelete

SpecItems == Init /\ [][NextItems]_vars

---------------------------------------------------------------------------
(* Claims about anonymize, under SpecAnon *)

(* C1: anonymize answers 200 with one {id, text} per input pii, in order,
   each of them flagged modified by the mechanism, or it answers 400; a 200
   never carries fewer outputs than inputs, and a ParserError always gives
   400. *)
C1_AnonymizeAllOrError ==
    last.op = "anonymize" =>
        /\ last.response.status \in {200, 400}
        /\ last.response.status = 200 =>
               /\ Len(last.response.anonymized_piis) = Len(last.piis)
               /\ \A i \in 1..Len(last.piis) :
                      /\ last.response.anonymized_piis[i].id = last.piis[i].id
                      /\ last.result.piis[i].modified
                      /\ last.response.anonymized_piis[i].text = last.result.piis[i].text
        /\ last.result.raised => last.response.status = 400
        /\ (~last.result.raised /\ \E i \in 1..Len(last.piis) : ~last.result.piis[i].modified)
               => last.response.status = 400

C1_Witness ==
    /\ last.op = "anonymize"
    /\ last.response.status = 200
    /\ Len(last.piis) = 2
    /\ Len(last.response.anonymized_piis) = 2

---------------------------------------------------------------------------
(* Claims about the whitelist, under SpecWl *)

Count(s, x) == Cardinality({i \in 1..Len(s) : s[i] = x})

WlWriteOps == {"add", "remove", "set_all"}

Normalize(s) == Strip(Lower(s))

(* C2 (as claimed): find_piis returns, in order, exactly the spans whose
   lower-cased and trimmed text differs from every lower-cased and trimmed
   whitelist entry. *)
C2_FilterNormalizesBothSides ==
    last.op = "find_piis" =>
        last.out = SelectSeq(last.ents,
                             LAMBDA pii : \A i \in 1..Len(last.whitelist) :
                                 Normalize(pii.text) # Normalize(last.whitelist[i]))

(* C3: getAll never returns more than MAX_WHITELIST_ENTRIES entries, every
   document written by add, remove or set_all has at most that many, and a
   file holding more is one that was found at start-up. *)
C3_WhitelistWithinCap ==
    /\ Len(WlGetAll(wlFile)) <= MAX_WHITELIST_ENTRIES
    /\ (last.op \in WlWriteOps /\ last.saveCalled /\ last.io = "ok")
           => Len(wlFile.data) <= MAX_WHITELIST_ENTRIES
    /\ Len(wlFile.data) > MAX_WHITELIST_ENTRIES => wlFile \in InitWhitelistFiles

C3_Witness ==
    /\ last.op \in {"add", "set_all"}
    /\ last.saveCalled /\ last.ret
    /\ Len(wlFile.data) = MAX_WHITELIST_ENTRIES

(* C8 (as claimed): add of an entry that is already in the whitelist,
   whatever the size of the whitelist, returns True and leaves the file as
   it was.  Stated for files the store wrote itself (none above the cap). *)
C8_AddExistingSucceeds ==
    (last.op = "add" /\ Contains(WlGetAll(last.before), last.entry)
        /\ Len(last.before.data) <= MAX_WHITELIST_ENTRIES)
        => (last.ret /\ wlFile = last.before)

(* C9 (as claimed): of two consecutive add(e) calls on a whitelist of size n
   without e, the second leaves a whitelist of size n + 1 holding e once.
   Stated for files the store wrote itself, no larger than MAX_FILE_SIZE,
   and for calls in which no write fails. *)
C9_TwoAddsGrowByOne ==
    (last.op = "add" /\ last.follows.is
        /\ ~Contains(WlGetAll(last.follows.before), last.entry)
        /\ Len(last.follows.before.data) <= MAX_WHITELIST_ENTRIES
        /\ last.before.size <= MAX_FILE_SIZE
        /\ last.follows.io \in {"ok", "none"} /\ last.io \in {"ok", "none"})
        => /\ Len(WlGetAll(wlFile)) = Len(WlGetAll(last.follows.before)) + 1
           /\ Count(WlGetAll(wlFile), last.entry) = 1

(* C9 (amended): the same, when n is below MAX_WHITELIST_ENTRIES, the first
   add returned True and the document it stored is within MAX_FILE_SIZE. *)
C9_TwoAddsGrowByOneBelowCap ==
    (last.op = "add" /\ last.follows.is
        /\ ~Contains(WlGetAll(last.follows.before), last.entry)
        /\ Len(WlGetAll(last.follows.before)) < MAX_WHITELIST_ENTRIES
        /\ last.follows.ret
        /\ last.before.size <= MAX_FILE_SIZE)
        => /\ Len(WlGetAll(wlFile)) = Len(WlGetAll(last.follows.before)) + 1
           /\ Count(WlGetAll(wlFile), last.entry) = 1

C9_Witness ==
    /\ last.op = "add" /\ last.follows.is
    /\ ~Contains(WlGetAll(last.follows.before), last.entry)
    /\ Len(WlGetAll(last.follows.before)) = 1
    /\ last.follows.ret
    /\ last.before.size <= MAX_FILE_SIZE
    /\ Len(WlGetAll(wlFile)) = 2

(* C10: add of an entry that is not in a whitelist of exactly
   MAX_WHITELIST_ENTRIES entries returns False and leaves the file as it
   was. *)
C10_AddAtCapRejected ==
    (last.op = "add"
        /\ Len(WlGetAll(last.before)) = MAX_WHITELIST_ENTRIES
        /\ ~Contains(WlGetAll(last.before), last.entry))
        => (~last.ret /\ ~last.saveCalled /\ wlFile = last.before)

C10_Witness ==
    /\ last.op = "add"
    /\ Len(WlGetAll(last.before)) = MAX_WHITELIST_ENTRIES
    /\ ~Contains(WlGetAll(last.before), last.entry)
    /\ ~last.ret

(* C11: set_all with a list longer than MAX_WHITELIST_ENTRIES returns False
   without calling save_json_file: the file is what it was, whatever it
   was. *)
C11_SetAllAboveCapRejected ==
    (last.op = "set_all" /\ Len(last.entries) > MAX_WHITELIST_ENTRIES)
        => (~last.ret /\ ~last.saveCalled /\ wlFile = last.before)

C11_Witness ==
    /\ last.op = "set_all"
    /\ Len(last.entries) = MAX_WHITELIST_ENTRIES + 1
    /\ Len(WlGetAll(last.before)) >= 1
    /\ ~last.ret
    /\ wlFile = last.before

(* C12 (as claimed): the whitelist never holds an entry more than once. *)
C12_NoDuplicateEntries ==
    \A i, j \in 1..Len(WlGetAll(wlFile)) :
        i # j => WlGetAll(wlFile)[i] # WlGetAll(wlFile)[j]

(* C13 (as claimed): after remove(e) returned True, e is not in the
   whitelist that get_all returns. *)
C13_RemovedEntryIsGone ==
    (last.op = "remove" /\ last.ret)
        => ~Contains(WlGetAll(wlFile), last.entry)

(* C22 (as claimed): after set_all(entries) with at most
   MAX_WHITELIST_ENTRIES entries returned True, get_all returns entries. *)
C22_SetAllThenGetAll ==
    (/\ last.op = "set_all"
     /\ Len(last.entries) <= MAX_WHITELIST_ENTRIES
     /\ last.ret)
        => WlGetAll(wlFile) = last.entries

(* C22 (amended): the same when the JSON text of entries is no longer than
   MAX_FILE_SIZE. *)
C22_SetAllThenGetAllWithinSize ==
    (/\ last.op = "set_all"
     /\ Len(last.entries) <= MAX_WHITELIST_ENTRIES
     /\ last.ret
     /\ JsonListSize(last.entries) <= MAX_FILE_SIZE)
        => WlGetAll(wlFile) = last.entries

C22_Witness ==
    /\ last.op = "set_all"
    /\ last.ret
    /\ last.entries = <<sb, sa>>
    /\ WlGetAll(last.before) = <<sa>>
    /\ WlGetAll(wlFile) = <<sb, sa>>

(* The whitelist that the call recorded in last handed to save_json_file. *)
WlNewCollection ==
    IF last.op = "add" THEN WlAddResult(last.before, last.entry, "ok").file.data
    ELSE IF last.op = "remove"
         THEN WlRemoveResult(last.before, last.entry, "ok").file.data
    ELSE WlSetAllResult(last.before, last.entries, "ok").file.data

(* C16 (as claimed): after a whitelist operation that called save_json_file
   on a file the store wrote, whatever the call returned, get_all returns
   the complete whitelist of before the call or the complete new one. *)
C16_SaveIsAtomic ==
    (/\ last.op \in WlWriteOps
     /\ last.saveCalled
     /\ last.before.kind = "json"
     /\ last.before.size <= MAX_FILE_SIZE
     /\ Len(last.before.data) <= MAX_WHITELIST_ENTRIES
     /\ JsonListSize(WlNewCollection) <= MAX_FILE_SIZE)
        => WlGetAll(wlFile) \in {WlGetAll(last.before), WlNewCollection}

---------------------------------------------------------------------------
(* Claims about the whitelist endpoints, under SpecWlApi *)

(* C21: add_whitelist_entry with an empty or blank data.entry answers 400
   without a call of WhitelistStorage, and the whitelist file is what it
   was. *)
C21_BlankEntryRejected ==
    (last.op = "add_whitelist_entry" /\ Strip(last.entry) = sEmpty)
        => /\ last.status = 400
           /\ ~last.storageCalled
           /\ ~last.saveCalled
           /\ wlFile = last.before

C21_Witness ==
    /\ last.op = "add_whitelist_entry"
    /\ last.entry = sBlank
    /\ last.status = 400
    /\ Len(WlGetAll(wlFile)) >= 1
    /\ wlFile = last.before

(* C27 (as claimed): an add_whitelist_entry of a non-blank e that is not in
   the whitelist, answered 200, and then a remove_whitelist_entry of the
   same e, answered 200, leave the whitelist that get_all returned before
   the add. *)
C27_AddThenRemoveRestores ==
    (/\ last.op = "remove_whitelist_entry"
     /\ last.status = 200
     /\ last.after.is
     /\ last.after.status = 200
     /\ Strip(last.entry) # sEmpty
     /\ ~Contains(WlGetAll(last.after.before), last.entry)
     /\ ~Contains(WlGetAll(last.after.before), Strip(last.entry))
     /\ last.after.before.size <= MAX_FILE_SIZE
     /\ last.before.size <= MAX_FILE_SIZE)
        => WlGetAll(wlFile) = WlGetAll(last.after.before)

---------------------------------------------------------------------------
(* Claims about anonymize_file, under SpecFile *)

ClientError == 400..499

(* anonymizations is not a parseable list, or an element lacks startChar,
   endChar or text. *)
Malformed(anonymizations) ==
    \/ anonymizations.json # "array"
    \/ \E i \in 1..Len(anonymizations.items) : anonymizations.items[i] # "complete"

(* C19 (as claimed): anonymize_file answers an unsupported format and a
   malformed anonymizations list with a status in 400..499. *)
C19_MalformedInputIsClientError ==
    (last.op = "anonymize_file"
     /\ (~last.supported \/ Malformed(last.anonymizations)))
        => last.response.status \in ClientError

(* C20 (as claimed): when b64encode raises in anonymize_file, the status of
   the answer is a server error, outside 400..499. *)
C20_EncodingFailureIsServerError ==
    (/\ last.op = "anonymize_file"
     /\ last.supported
     /\ ~Malformed(last.anonymizations)
     /\ last.alters = "ok"
     /\ last.return_base64
     /\ last.b64 = "raises")
        => (last.response.status >= 500 /\ last.response.status \notin ClientError)

---------------------------------------------------------------------------
(* Claims about the two stores side by side, under SpecFrame and SpecStore *)

WlOps == {"add", "remove", "set_all"}
TplOps == {"save", "delete", "import"}
ReadOps == {"get_whitelist", "get_templates", "get_template", "find_piis"}

(* C25: a step of add, remove or set_all leaves the templates file as it
   is, a step of save, delete or import leaves the whitelist file as it is,
   and get_whitelist, get_templates, get_template and find_piis leave
   both. *)
C25_StoresAreIndependent ==
    [][/\ last'.op \in WlOps => tplFile' = tplFile
       /\ last'.op \in TplOps => wlFile' = wlFile
       /\ last'.op \in ReadOps => (wlFile' = wlFile /\ tplFile' = tplFile)]_vars

C25_Witness ==
    /\ last.op = "set_all"
    /\ last.ret
    /\ wlFile # last.wlBefore
    /\ WlGetAll(wlFile) = <<sb, sa>>
    /\ Len(TplGetAll(tplFile)) >= 1
    /\ tplFile = last.tplBefore

(* The operations of the two processes were in flight together: both have
   written from what they loaded. *)
BothDumped(store) ==
    /\ \A w \in Writers :
          procs[w].pc = "done" /\ procs[w].dumped /\ procs[w].req.store = store
    /\ procs[1].req # procs[2].req

(* C26: whatever the interleaving of the steps of the two processes, a
   whitelist file that holds a JSON list holds at most
   MAX_WHITELIST_ENTRIES entries and a templates file that holds a JSON
   dict holds at most MAX_TEMPLATES templates. *)
C26_CapsSurviveRaces ==
    /\ (wlFile.kind = "json" /\ wlFile.shape = "list")
           => Len(wlFile.data) <= MAX_WHITELIST_ENTRIES
    /\ (tplFile.kind = "json" /\ tplFile.shape = "dict")
           => Len(tplFile.data) <= MAX_TEMPLATES

C26_Witness ==
    /\ BothDumped("wl")
    /\ procs[1].req.op = "add" /\ procs[2].req.op = "add"
    /\ last.step = "dump"
    /\ wlFile.kind = "json"
    /\ Len(wlFile.data) = MAX_WHITELIST_ENTRIES
    /\ tplFile.kind = "json"
    /\ Len(tplFile.data) = MAX_TEMPLATES

---------------------------------------------------------------------------
(* Claims about concurrent adds, under SpecRace *)

(* Two adds of different entries that loaded the same whitelist, appended
   to it and both returned True. *)
BothAdded(w, v) ==
    /\ w # v
    /\ procs[w].pc = "done" /\ procs[v].pc = "done"
    /\ procs[w].dumped /\ procs[v].dumped
    /\ procs[w].ret /\ procs[v].ret
    /\ procs[w].seen = procs[v].seen
    /\ procs[w].entry # procs[v].entry

(* C18: when two adds of different entries loaded the same whitelist and
   both returned True, and the one that dumped last left a JSON file, the
   whitelist is the loaded one plus the entry of that last add: the entry of
   the other add is not in it. *)
C18_LaterAddOverwrites ==
    \A w, v \in Writers :
        (BothAdded(w, v) /\ last.op = "dump" /\ last.w = v /\ wlFile.kind = "json")
            => /\ WlGetAll(wlFile) = Append(procs[v].seen, procs[v].entry)
               /\ ~Contains(WlGetAll(wlFile), procs[w].entry)

C18_Witness ==
    \E w, v \in Writers :
        /\ BothAdded(w, v)
        /\ last.op = "dump" /\ last.w = v
        /\ Len(procs[w].seen) >= 1
        /\ Len(procs[w].seen) < MAX_WHITELIST_ENTRIES
        /\ WlGetAll(wlFile) = Append(procs[v].seen, procs[v].entry)
        /\ ~Contains(WlGetAll(wlFile), procs[w].entry)

---------------------------------------------------------------------------
(* Claims about both stores, under SpecItems *)

(* C14: remove of an entry that is not in the whitelist and delete of an id
   that is not in the templates return True without calling save_json_file:
   the file is what it was. *)
C14_RemovingAbsentItemIsNoOp ==
    /\ (last.op = "remove" /\ ~Contains(WlGetAll(last.before), last.entry))
           => (last.ret /\ ~last.saveCalled /\ wlFile = last.before)
    /\ (last.op = "delete" /\ ~DictHas(TplGetAll(last.before), last.id))
           => (last.ret /\ ~last.saveCalled /\ tplFile = last.before)

C14_Witness ==
    /\ last.op = "delete"
    /\ ~DictHas(TplGetAll(last.before), last.id)
    /\ Len(TplGetAll(last.before)) >= 1
    /\ Len(WlGetAll(wlFile)) >= 1
    /\ last.ret
    /\ tplFile = last.before

(* A file from which load_json_file or the shape test of get_all gives the
   empty collection: absent, unreadable or not JSON, above MAX_FILE_SIZE, or
   of another top-level type than wanted. *)
Unusable(file, shape) ==
    \/ file.kind \in {"absent", "invalid"}
    \/ file.size > MAX_FILE_SIZE
    \/ file.shape # shape

(* C17: from an unusable file get_all returns the empty collection, and an
   add whose write goes through then returns True and leaves a JSON list
   holding the entry, which get_all returns when it is within
   MAX_FILE_SIZE; the same for save on the templates. *)
C17_UnusableFileReadsEmpty ==
    /\ Unusable(wlFile, "list") => WlGetAll(wlFile) = <<>>
    /\ Unusable(tplFile, "dict") => TplGetAll(tplFile) = <<>>
    /\ (last.op = "add" /\ Unusable(last.before, "list") /\ last.io = "ok")
           => /\ last.ret
              /\ wlFile = [kind |-> "json", shape |-> "list",
                           data |-> <<last.entry>>,
                           size |-> JsonListSize(<<last.entry>>)]
              /\ wlFile.size <= MAX_FILE_SIZE => WlGetAll(wlFile) = <<last.entry>>
    /\ (last.op = "save" /\ Unusable(last.before, "dict") /\ last.io = "ok")
           => /\ last.ret
              /\ tplFile.kind = "json" /\ tplFile.shape = "dict"
              /\ tplFile.data = <<[id |-> last.id, body |-> last.body]>>
              /\ tplFile.size <= MAX_FILE_SIZE => TplGetAll(tplFile) = tplFile.data

C17_Witness ==
    /\ last.op = "add" /\ last.io = "ok" /\ last.ret
    /\ last.before.kind = "invalid"
    /\ WlGetAll(wlFile) = <<last.entry>>

---------------------------------------------------------------------------
(* Claims about the template endpoints, under SpecTplApi *)

(* C15: a save_template of an id that is already stored with a created_at
   keeps that created_at and sets updated_at to the time of the save. *)
C15_CreatedAtFixedByFirstSave ==
    (/\ last.op = "save_template"
     /\ last.status = 200
     /\ last.before.size <= MAX_FILE_SIZE
     /\ tplFile.size <= MAX_FILE_SIZE
     /\ DictHas(TplGetAll(last.before), last.id)
     /\ DictGet(TplGetAll(last.before), last.id).created_at # 0)
        => /\ DictHas(TplGetAll(tplFile), last.id)
           /\ DictGet(TplGetAll(tplFile), last.id).created_at
                  = DictGet(TplGetAll(last.before), last.id).created_at
           /\ DictGet(TplGetAll(tplFile), last.id).updated_at = last.utcnow

(* The limit test of TemplateStorage.import_templates lets the import
   recorded in last through. *)
ImportWithinLimit ==
    Len(TplGetAll(last.before)) + Len(last.imported.data) <= MAX_TEMPLATES

(* C24 (as claimed, for an import_templates request that the limit admits,
   on a readable file with a template in it and with no I/O failure):
   afterwards every id of the request maps to the body given in the
   request, and every template with another id is what it was. *)
C24_ImportMapsEveryId ==
    (/\ last.op = "import_templates"
     /\ last.io = "ok"
     /\ ImportWithinLimit
     /\ last.before.kind = "json"
     /\ last.before.size <= MAX_FILE_SIZE
     /\ Len(TplGetAll(last.before)) >= 1
     /\ JsonDictSize(DictUpdate(TplGetAll(last.before), last.imported.data))
            <= MAX_FILE_SIZE)
        => \A id \in TemplateIds :
              IF DictHas(last.imported.data, id)
              THEN /\ TplGet(tplFile, id).found
                   /\ TplGet(tplFile, id).body = DictGet(last.imported.data, id)
              ELSE TplGet(tplFile, id) = TplGet(last.before, id)

---------------------------------------------------------------------------
(* Claims about the templates, under SpecTpl *)

TplWriteOps == {"save", "delete", "import"}

(* The capacity rejection of import_templates: a dict payload refused
   without a write. *)
ImportRejectedForSize ==
    last.op = "import" /\ last.imported.isDict /\ ~last.saveCalled /\ ~last.ret

(* The call recorded in last stores a value under id. *)
Writes(id) ==
    \/ last.op = "save" /\ last.id = id
    \/ last.op = "import" /\ DictHas(last.imported.data, id)

(* A call that does not store under id does not make id found. *)
UnwrittenIdStaysUnknown ==
    \A id \in TemplateIds :
        (/\ last.op \in TplWriteOps
         /\ ~Writes(id)
         /\ GetTemplateResponse(last.before, id).status = 404)
            => GetTemplateResponse(tplFile, id).status = 404

(* C23 (as claimed): after save(id, body) returned True, get_template
   answers body; after delete(id) returned True it answers 404; and an id
   that no call stored is answered 404. *)
C23_GetReflectsLastWrite ==
    /\ (last.op = "save" /\ last.ret)
           => /\ GetTemplateResponse(tplFile, last.id).status = 200
              /\ GetTemplateResponse(tplFile, last.id).template = last.body
    /\ (last.op = "delete" /\ last.ret)
           => GetTemplateResponse(tplFile, last.id).status = 404
    /\ UnwrittenIdStaysUnknown

(* C23 (amended): the same, for save when the stored document is no larger
   than MAX_FILE_SIZE. *)
C23_GetReflectsLastWriteWithinSize ==
    /\ (last.op = "save" /\ last.ret /\ tplFile.size <= MAX_FILE_SIZE)
           => /\ GetTemplateResponse(tplFile, last.id).status = 200
              /\ GetTemplateResponse(tplFile, last.id).template = last.body
    /\ (last.op = "delete" /\ last.ret)
           => GetTemplateResponse(tplFile, last.id).status = 404
    /\ UnwrittenIdStaysUnknown

C23_Witness ==
    /\ last.op = "save"
    /\ last.ret
    /\ GetTemplateResponse(last.before, last.id).status = 200
    /\ GetTemplateResponse(last.before, last.id).template # last.body
    /\ GetTemplateResponse(tplFile, last.id).template = last.body

(* C4: the template collection never has more than MAX_TEMPLATES templates:
   neither what get_all returns nor any document written by save, delete or
   import_templates; a file holding more is one found at start-up. *)
C4_TemplatesWithinCap ==
    /\ Len(TplGetAll(tplFile)) <= MAX_TEMPLATES
    /\ (last.op \in TplWriteOps /\ last.saveCalled /\ last.io = "ok")
           => Len(tplFile.data) <= MAX_TEMPLATES
    /\ Len(tplFile.data) > MAX_TEMPLATES => tplFile \in InitTemplateFiles

C4_Witness ==
    /\ last.op = "import" /\ last.ret /\ last.saveCalled
    /\ Len(last.imported.data) >= 1
    /\ Len(tplFile.data) = MAX_TEMPLATES

(* C5: when import_templates fails because the payload is not a dict or
   because the total would exceed MAX_TEMPLATES, the templates file is
   exactly what it was before the call. *)
C5_FailedImportChangesNothing ==
    (last.op = "import" /\ ~last.ret
        /\ (\/ ~last.imported.isDict
            \/ Len(TplGetAll(last.before)) + Len(last.imported.data) > MAX_TEMPLATES))
        => (tplFile = last.before /\ ~last.saveCalled)

C5_Witness ==
    /\ last.op = "import" /\ ~last.ret /\ last.imported.isDict
    /\ Len(TplGetAll(last.before)) >= 1
    /\ Len(last.imported.data) >= 1
    /\ Len(last.imported.data) <= MAX_TEMPLATES
    /\ Len(TplGetAll(last.before)) + Len(last.imported.data) > MAX_TEMPLATES
    /\ tplFile = last.before

(* C6 (as claimed): import_templates with a dict is rejected for size
   exactly when the union of the existing and the imported ids has more
   than MAX_TEMPLATES members.  Stated for files within the cap. *)
C6_ImportRejectedIffUnionExceeds ==
    (last.op = "import" /\ last.imported.isDict
        /\ Len(last.before.data) <= MAX_TEMPLATES)
        => (ImportRejectedForSize <=>
               Cardinality(DictKeys(TplGetAll(last.before))
                               \cup DictKeys(last.imported.data)) > MAX_TEMPLATES)

(* C7: save of an id that is not in a collection of MAX_TEMPLATES templates
   returns False and leaves the file as it was; save of an id that is in
   the collection is never refused for size, and when it returns True the
   stored collection has the ids it had, in the same order, with the new
   body under the saved id. *)
C7_SaveAtCap ==
    /\ (last.op = "save"
           /\ ~DictHas(TplGetAll(last.before), last.id)
           /\ Len(TplGetAll(last.before)) = MAX_TEMPLATES)
        => (~last.ret /\ ~last.saveCalled /\ tplFile = last.before)
    /\ (last.op = "save" /\ DictHas(TplGetAll(last.before), last.id))
        => /\ last.saveCalled
           /\ last.ret = (last.io = "ok")
           /\ last.ret =>
                /\ tplFile.kind = "json" /\ tplFile.shape = "dict"
                /\ Len(tplFile.data) = Len(TplGetAll(last.before))
                /\ \A i \in 1..Len(tplFile.data) :
                       tplFile.data[i].id = TplGetAll(last.before)[i].id
                /\ DictGet(tplFile.data, last.id) = last.body

C7_Witness ==
    /\ last.op = "save" /\ last.ret
    /\ DictHas(TplGetAll(last.before), last.id)
    /\ Len(TplGetAll(last.before)) = MAX_TEMPLATES
    /\ DictGet(TplGetAll(last.before), last.id) # last.body

====
